---- MODULE Spec2Model ----
(***************************************************************************)
(* Model of the graphs library (src/src/lib.rs): Edge, Node<T>, Graph<T>.  *)
(* A Vec is a sequence (Rust index i is TLA+ index i + 1), a HashMap is a  *)
(* function on its key set, Option and Result are tagged records.          *)
(***************************************************************************)
EXTENDS Integers, Sequences, FiniteSets, TLC

\* Bounds of the model: node indices 0..MaxId, weights 1..MaxWeight,
\* graph capacities 0..MaxCapacity.
MaxId == 1
MaxWeight == 2
MaxCapacity == 2

NodeIds == 0..MaxId
Weights == 1..MaxWeight
Capacities == 0..MaxCapacity
Labels == {"Furniture"}

\* Option<T> and Result<T, GraphError>
None == [tag |-> "None"]
Some(v) == [tag |-> "Some", val |-> v]
Ok(v) == [tag |-> "Ok", val |-> v]
Err(e) == [tag |-> "Err", err |-> e]
MissingNode == "MissingNode"

\* std::collections::HashMap, as the library uses it
EmptyMap == [k \in {} |-> None]
HashMap_len(m) == Cardinality(DOMAIN m)
HashMap_get(m, k) == IF k \in DOMAIN m THEN Some(m[k]) ELSE None

HashMap_insert_NoOld(m, k, v) ==
    [map |-> [x \in (DOMAIN m) \cup {k} |-> IF x = k THEN v ELSE m[x]],
     ret |-> None]
HashMap_insert(m, k, v) ==
    [map |-> [x \in (DOMAIN m) \cup {k} |-> IF x = k THEN v ELSE m[x]],
     ret |-> IF k \in DOMAIN m THEN Some(m[k]) ELSE None]

HashMap_remove_entry_Keep(m, k) ==
    [map |-> m,
     ret |-> IF k \in DOMAIN m THEN Some(<<k, m[k]>>) ELSE None]
HashMap_remove_entry(m, k) ==
    [map |-> [x \in (DOMAIN m) \ {k} |-> m[x]],
     ret |-> IF k \in DOMAIN m THEN Some(<<k, m[k]>>) ELSE None]

\* Edge::new
Edge_new_Swapped(from_node, to_node, weight) ==
    [from_node |-> to_node, to_node |-> from_node, weight |-> weight]
Edge_new(from_node, to_node, weight) ==
    [from_node |-> from_node, to_node |-> to_node, weight |-> weight]

\* Node::new, Node::with_label
Node_new(idx) == [idx |-> idx, edges |-> EmptyMap, label |-> None]
Node_with_label(idx, label) ==
    [idx |-> idx, edges |-> EmptyMap, label |-> Some(label)]

\* Node::number_of_edges, Node::get_edge
Node_number_of_edges(n) == HashMap_len(n.edges)
Node_get_edge(n, neighbor) == HashMap_get(n.edges, neighbor)

\* Node::add_edge: the new node value and the returned Option<Edge>
Node_add_edge_KeepOld(n, neighbor, weight) ==
    LET new_edge == Edge_new(n.idx, neighbor, weight)
    IN  IF neighbor \in DOMAIN n.edges
        THEN [node |-> n, ret |-> Some(n.edges[neighbor])]
        ELSE [node |-> [n EXCEPT !.edges = HashMap_insert(n.edges, neighbor, new_edge).map],
              ret |-> None]
Node_add_edge(n, neighbor, weight) ==
    LET new_edge == Edge_new(n.idx, neighbor, weight)
        r == HashMap_insert(n.edges, neighbor, new_edge)
    IN  [node |-> [n EXCEPT !.edges = r.map], ret |-> r.ret]

\* Node::remove_edge: the new node value and the returned Option<(u32, Edge)>
Node_remove_edge(n, neighbor) ==
    LET r == HashMap_remove_entry(n.edges, neighbor)
    IN  [node |-> [n EXCEPT !.edges = r.map], ret |-> r.ret]

\* Graph::new
Graph_new(capacity, undirected) ==
    [capacity |-> capacity, nodes |-> <<>>, undirected |-> undirected]

\* self.nodes.iter().position(|n| n.idx == idx): the first match
Position_Last(nodes, idx) ==
    LET S == {i \in 1..Len(nodes) : nodes[i].idx = idx}
    IN  IF S = {} THEN None
        ELSE Some(CHOOSE i \in S : \A j \in S : j <= i)
Position(nodes, idx) ==
    LET S == {i \in 1..Len(nodes) : nodes[i].idx = idx}
    IN  IF S = {} THEN None
        ELSE Some(CHOOSE i \in S : \A j \in S : i <= j)

\* Graph::insert_node: the new graph value and the returned bool
Graph_insert_node_NoCheck(g, n) ==
    [graph |-> [g EXCEPT !.nodes = Append(@, n)], ret |-> TRUE]
Graph_insert_node_OffByOne(g, n) ==
    IF Len(g.nodes) = g.capacity + 1
    THEN [graph |-> g, ret |-> FALSE]
    ELSE [graph |-> [g EXCEPT !.nodes = Append(@, n)], ret |-> TRUE]
Graph_insert_node(g, n) ==
    IF Len(g.nodes) = g.capacity
    THEN [graph |-> g, ret |-> FALSE]
    ELSE [graph |-> [g EXCEPT !.nodes = Append(@, n)], ret |-> TRUE]

\* Graph::insert_edge: the new graph value and the returned Result
Graph_insert_edge_CheckTo(g, from, to, weight) ==
    LET p == Position(g.nodes, from)
    IN  IF p # None /\ Position(g.nodes, to) # None
        THEN LET r == Node_add_edge(g.nodes[p.val], to, weight)
             IN  [graph |-> [g EXCEPT !.nodes[p.val] = r.node], ret |-> Ok(r.ret)]
        ELSE [graph |-> g, ret |-> Err(MissingNode)]
Graph_insert_edge_Reciprocal(g, from, to, weight) ==
    LET p == Position(g.nodes, from)
    IN  IF p # None
        THEN LET r == Node_add_edge(g.nodes[p.val], to, weight)
                 g1 == [g EXCEPT !.nodes[p.val] = r.node]
                 q == Position(g1.nodes, to)
             IN  IF g.undirected /\ q # None
                 THEN [graph |-> [g1 EXCEPT !.nodes[q.val] =
                                     Node_add_edge(@, from, weight).node],
                       ret |-> Ok(r.ret)]
                 ELSE [graph |-> g1, ret |-> Ok(r.ret)]
        ELSE [graph |-> g, ret |-> Err(MissingNode)]
Graph_insert_edge(g, from, to, weight) ==
    LET p == Position(g.nodes, from)
    IN  IF p # None
        THEN LET r == Node_add_edge(g.nodes[p.val], to, weight)
             IN  [graph |-> [g EXCEPT !.nodes[p.val] = r.node], ret |-> Ok(r.ret)]
        ELSE [graph |-> g, ret |-> Err(MissingNode)]

\* Graph::has_node, Graph::get_edge, Graph::has_edge
Graph_has_node(g, idx) == \E i \in 1..Len(g.nodes) : g.nodes[i].idx = idx
Graph_get_edge(g, from, to) ==
    LET p == Position(g.nodes, from)
    IN  IF p # None THEN Node_get_edge(g.nodes[p.val], to) ELSE None
Graph_has_edge(g, from, to) == Graph_get_edge(g, from, to) # None

(***************************************************************************)
(* State: one Graph, one Node value the caller holds outside the graph     *)
(* (None when the caller holds none), the last call with its arguments and *)
(* return value, and the graph and node as they were before that call.     *)
(***************************************************************************)
VARIABLES graph, node, last, prev

vars == <<graph, node, last, prev>>

Call(op, args, ret) == [op |-> op, args |-> args, ret |-> ret]
Snapshot == [graph |-> graph, node |-> node]

Init ==
    /\ \E capacity \in Capacities, undirected \in BOOLEAN :
          graph = Graph_new(capacity, undirected)
    /\ node = None
    /\ last = Call("init", <<>>, None)
    /\ prev = [graph |-> graph, node |-> node]

\* let node = Node::new(idx);
NodeNew ==
    \E idx \in NodeIds :
       /\ node' = Some(Node_new(idx))
       /\ last' = Call("new", [idx |-> idx], None)
       /\ prev' = Snapshot
       /\ UNCHANGED graph

\* let node = Node::with_label(idx, label);
NodeWithLabel ==
    \E idx \in NodeIds, label \in Labels :
       /\ node' = Some(Node_with_label(idx, label))
       /\ last' = Call("with_label", [idx |-> idx, label |-> label], None)
       /\ prev' = Snapshot
       /\ UNCHANGED graph

\* node.add_edge(neighbor, weight)
NodeAddEdge ==
    /\ node # None
    /\ \E neighbor \in NodeIds, weight \in Weights :
          LET r == Node_add_edge(node.val, neighbor, weight)
          IN  /\ node' = Some(r.node)
              /\ last' = Call("add_edge",
                              [neighbor |-> neighbor, weight |-> weight], r.ret)
    /\ prev' = Snapshot
    /\ UNCHANGED graph

\* node.remove_edge(neighbor)
NodeRemoveEdge ==
    /\ node # None
    /\ \E neighbor \in NodeIds :
          LET r == Node_remove_edge(node.val, neighbor)
          IN  /\ node' = Some(r.node)
              /\ last' = Call("remove_edge", [neighbor |-> neighbor], r.ret)
    /\ prev' = Snapshot
    /\ UNCHANGED graph

\* node.get_edge(neighbor)
NodeGetEdge ==
    /\ node # None
    /\ \E neighbor \in NodeIds :
          last' = Call("node_get_edge", [neighbor |-> neighbor],
                       Node_get_edge(node.val, neighbor))
    /\ prev' = Snapshot
    /\ UNCHANGED <<graph, node>>

\* node.number_of_edges()
NodeNumberOfEdges ==
    /\ node # None
    /\ last' = Call("number_of_edges", <<>>, Node_number_of_edges(node.val))
    /\ prev' = Snapshot
    /\ UNCHANGED <<graph, node>>

\* graph.insert_node(node): the node is moved into the call
InsertNode ==
    /\ node # None
    /\ LET r == Graph_insert_node(graph, node.val)
       IN  /\ graph' = r.graph
           /\ last' = Call("insert_node", [node |-> node.val], r.ret)
    /\ node' = None
    /\ prev' = Snapshot

\* graph.insert_edge(from, to, weight)
InsertEdge ==
    \E from \in NodeIds, to \in NodeIds, weight \in Weights :
       LET r == Graph_insert_edge(graph, from, to, weight)
       IN  /\ graph' = r.graph
           /\ last' = Call("insert_edge",
                           [from |-> from, to |-> to, weight |-> weight], r.ret)
           /\ prev' = Snapshot
           /\ UNCHANGED node

\* graph.has_node(idx)
HasNode ==
    \E idx \in NodeIds :
       /\ last' = Call("has_node", [idx |-> idx], Graph_has_node(graph, idx))
       /\ prev' = Snapshot
       /\ UNCHANGED <<graph, node>>

\* graph.has_edge(from, to)
HasEdge ==
    \E from \in NodeIds, to \in NodeIds :
       /\ last' = Call("has_edge", [from |-> from, to |-> to],
                       Graph_has_edge(graph, from, to))
       /\ prev' = Snapshot
       /\ UNCHANGED <<graph, node>>

\* graph.get_edge(from, to)
GetEdge ==
    \E from \in NodeIds, to \in NodeIds :
       /\ last' = Call("get_edge", [from |-> from, to |-> to],
                       Graph_get_edge(graph, from, to))
       /\ prev' = Snapshot
       /\ UNCHANGED <<graph, node>>

\* The graph API, fed with freshly constructed nodes.
Next ==
    \/ NodeNew
    \/ NodeWithLabel
    \/ InsertNode
    \/ InsertEdge
    \/ HasNode
    \/ HasEdge
    \/ GetEdge

Spec == Init /\ [][Next]_vars

\* The node API alone, on a node held outside the graph.
NextNode ==
    \/ NodeNew
    \/ NodeWithLabel
    \/ NodeAddEdge
    \/ NodeRemoveEdge
    \/ NodeGetEdge
    \/ NodeNumberOfEdges

SpecNode == Init /\ [][NextNode]_vars

\* Both APIs: nodes may carry edges when they are inserted.
NextAll ==
    \/ NodeNew
    \/ NodeWithLabel
    \/ NodeAddEdge
    \/ NodeRemoveEdge
    \/ InsertNode
    \/ InsertEdge

\* Graph::new(capacity, false), the graph every test of the library builds;
\* no call of NextAll reads the undirected flag.
InitAll ==
    /\ \E capacity \in Capacities : graph = Graph_new(capacity, FALSE)
    /\ node = None
    /\ last = Call("init", <<>>, None)
    /\ prev = [graph |-> graph, node |-> node]

SpecAll == InitAll /\ [][NextAll]_vars

(***************************************************************************)
(* Properties                                                              *)
(***************************************************************************)
Before == prev.graph
DistinctIds(nodes) ==
    \A i, j \in 1..Len(nodes) : nodes[i].idx = nodes[j].idx => i = j
Stored(nodes, idx) == {i \in 1..Len(nodes) : nodes[i].idx = idx}
First(S) == CHOOSE i \in S : \A j \in S : i <= j
EdgeCount(n) == Cardinality(DOMAIN n.edges)
SameElsewhere(old, new, k) ==
    \A j \in NodeIds \ {k} :
       /\ (j \in DOMAIN new) = (j \in DOMAIN old)
       /\ j \in DOMAIN old => new[j] = old[j]

\* C1: the graph never holds more than capacity nodes, the capacity never
\* changes, and no call removes or replaces an already stored node: every
\* node stored before the last call is still stored at the same position.
C1_CapacityBound ==
    /\ Len(graph.nodes) <= graph.capacity
    /\ graph.capacity = Before.capacity
    /\ Len(Before.nodes) <= Len(graph.nodes)
    /\ \A i \in 1..Len(Before.nodes) :
          /\ graph.nodes[i].idx = Before.nodes[i].idx
          /\ graph.nodes[i].label = Before.nodes[i].label

C1_Witness ==
    /\ last.op = "insert_node"
    /\ last.ret = FALSE
    /\ graph.capacity = MaxCapacity
    /\ Len(graph.nodes) = MaxCapacity

\* C2: insert_node returns true exactly when the graph held fewer than
\* capacity nodes, and then the node sequence is the old one with the node
\* appended and nothing else changed; at capacity it returns false, the
\* graph is unchanged and its length stays equal to the capacity.
C2_InsertNode ==
    last.op = "insert_node" =>
       /\ last.ret = (Len(Before.nodes) < Before.capacity)
       /\ last.ret =>
             graph = [capacity |-> Before.capacity,
                      nodes |-> Before.nodes \o <<last.args.node>>,
                      undirected |-> Before.undirected]
       /\ ~last.ret =>
             /\ graph = Before
             /\ Len(graph.nodes) = graph.capacity

C2_Witness ==
    /\ last.op = "insert_node"
    /\ last.ret = FALSE
    /\ graph.capacity >= 1
    /\ \E i \in 1..Len(graph.nodes) : DOMAIN graph.nodes[i].edges # {}

\* C3: insert_edge returns Err(MissingNode) exactly when no stored node has
\* id from, and then the graph is unchanged; otherwise it returns Ok,
\* whether or not a node with id to is stored.
C3_InsertEdgeResult ==
    last.op = "insert_edge" =>
       LET missing == Stored(Before.nodes, last.args.from) = {}
       IN  /\ (last.ret = Err(MissingNode)) = missing
           /\ missing => graph = Before
           /\ ~missing => last.ret.tag = "Ok"

C3_Witness ==
    /\ last.op = "insert_edge"
    /\ last.ret.tag = "Ok"
    /\ Stored(Before.nodes, last.args.to) = {}

\* C4: with distinct stored ids, a successful insert_edge(from, to, w)
\* returns the edge previously stored for from->to (None if there was
\* none); afterwards get_edge(from, to) is the edge (from, to, w),
\* has_edge(from, to) is true and the number of nodes is unchanged.
C4_InsertEdgeThenGet ==
    (/\ last.op = "insert_edge"
     /\ last.ret.tag = "Ok"
     /\ DistinctIds(Before.nodes)) =>
       LET from == last.args.from
           to == last.args.to
           src == CHOOSE i \in 1..Len(Before.nodes) : Before.nodes[i].idx = from
           old == Before.nodes[src].edges
       IN  /\ last.ret.val = IF to \in DOMAIN old THEN Some(old[to]) ELSE None
           /\ Graph_get_edge(graph, from, to) =
                 Some([from_node |-> from, to_node |-> to,
                       weight |-> last.args.weight])
           /\ Graph_has_edge(graph, from, to)
           /\ Len(graph.nodes) = Len(Before.nodes)

C4_Witness ==
    /\ last.op = "insert_edge"
    /\ last.ret.tag = "Ok"
    /\ DistinctIds(Before.nodes)
    /\ Len(Before.nodes) = 2
    /\ last.ret.val # None
    /\ last.ret.val.val.weight # last.args.weight

\* C5: add_edge(neighbor, weight) on a node without an edge to neighbor
\* adds one entry and returns None; on a node with such an edge it keeps
\* the count and returns the old edge; in both cases the stored edge
\* carries the new weight and the entries of all other neighbors, the
\* index and the label are unchanged.
C5_AddEdge ==
    last.op = "add_edge" =>
       LET o == prev.node.val
           n == node.val
           k == last.args.neighbor
       IN  /\ k \notin DOMAIN o.edges =>
                 /\ EdgeCount(n) = EdgeCount(o) + 1
                 /\ last.ret = None
           /\ k \in DOMAIN o.edges =>
                 /\ EdgeCount(n) = EdgeCount(o)
                 /\ last.ret = Some(o.edges[k])
           /\ k \in DOMAIN n.edges
           /\ n.edges[k].weight = last.args.weight
           /\ SameElsewhere(o.edges, n.edges, k)
           /\ n.idx = o.idx
           /\ n.label = o.label

C5_Witness ==
    /\ last.op = "add_edge"
    /\ last.ret # None
    /\ last.ret.val.weight # last.args.weight
    /\ EdgeCount(node.val) = 2

\* One step of the node API, as C6 requires it of remove_edge.
C6_RemoveEdgeStep ==
    /\ last'.op = "remove_edge" =>
          LET o == prev'.node.val
              n == node'.val
              k == last'.args.neighbor
          IN  /\ k \in DOMAIN o.edges =>
                    /\ EdgeCount(n) = EdgeCount(o) - 1
                    /\ last'.ret = Some(<<k, o.edges[k]>>)
              /\ k \notin DOMAIN o.edges =>
                    /\ last'.ret = None
                    /\ n = o
              /\ k \notin DOMAIN n.edges
              /\ SameElsewhere(o.edges, n.edges, k)
              /\ n.idx = o.idx
              /\ n.label = o.label
    /\ (/\ last.op = "remove_edge"
        /\ last'.op = "remove_edge"
        /\ last'.args.neighbor = last.args.neighbor) =>
          /\ last'.ret = None
          /\ node' = node

\* C6: remove_edge(neighbor) on a node with an edge to neighbor removes
\* exactly that entry and returns (neighbor, edge); without such an edge it
\* returns None and leaves the node unchanged; a second remove_edge of the
\* same neighbor right after the first returns None and changes nothing.
C6_RemoveEdge == [][C6_RemoveEdgeStep]_vars

C6_Witness ==
    /\ last.op = "remove_edge"
    /\ last.ret # None
    /\ EdgeCount(node.val) = 1
    /\ EdgeCount(prev.node.val) = 2

\* C7: no two nodes stored in the graph have the same id.
C7_UniqueIds == DistinctIds(graph.nodes)

\* C8: has_node, has_edge and get_edge leave the graph and the caller's
\* node unchanged; get_edge(from, to) is None when no stored node has id
\* from and otherwise what the first stored node with that id has for to;
\* has_edge is true exactly when that edge is present; has_node is true
\* exactly when some stored node has the id.
C8_Lookups ==
    /\ last.op \in {"has_node", "has_edge", "get_edge"} =>
          /\ graph = Before
          /\ node = prev.node
    /\ last.op \in {"has_edge", "get_edge"} =>
          LET S == Stored(graph.nodes, last.args.from)
              found == IF S = {} THEN None
                       ELSE LET m == graph.nodes[First(S)].edges
                            IN  IF last.args.to \in DOMAIN m
                                THEN Some(m[last.args.to]) ELSE None
          IN  IF last.op = "get_edge"
              THEN last.ret = found
              ELSE last.ret = (found # None)
    /\ last.op = "has_node" =>
          last.ret = (last.args.idx \in {graph.nodes[i].idx : i \in 1..Len(graph.nodes)})

C8_Witness ==
    /\ last.op = "get_edge"
    /\ last.ret # None
    /\ Len(graph.nodes) = 2
    /\ graph.nodes[1].idx = graph.nodes[2].idx
    /\ last.args.to \notin DOMAIN graph.nodes[2].edges

\* C9: a successful insert_edge(from, to, w) changes only the entry for to
\* in the adjacency map of the first stored node with id from: every other
\* node, the number of nodes, the capacity and the undirected flag are
\* unchanged, and the same call on the graph with the opposite undirected
\* flag gives the same nodes and the same return value.
C9_OneDirectional ==
    (last.op = "insert_edge" /\ last.ret.tag = "Ok") =>
       LET from == last.args.from
           to == last.args.to
           p == First(Stored(Before.nodes, from))
           flipped == Graph_insert_edge([Before EXCEPT !.undirected = ~@],
                                        from, to, last.args.weight)
       IN  /\ graph.capacity = Before.capacity
           /\ graph.undirected = Before.undirected
           /\ Len(graph.nodes) = Len(Before.nodes)
           /\ \A i \in 1..Len(Before.nodes) :
                 i # p => graph.nodes[i] = Before.nodes[i]
           /\ graph.nodes[p].idx = Before.nodes[p].idx
           /\ graph.nodes[p].label = Before.nodes[p].label
           /\ SameElsewhere(Before.nodes[p].edges, graph.nodes[p].edges, to)
           /\ flipped.graph.nodes = graph.nodes
           /\ flipped.ret = last.ret

C9_Witness ==
    /\ last.op = "insert_edge"
    /\ last.ret.tag = "Ok"
    /\ graph.undirected
    /\ last.args.from # last.args.to
    /\ Stored(graph.nodes, last.args.to) # {}
    /\ \A i \in Stored(graph.nodes, last.args.to) :
          last.args.from \notin DOMAIN graph.nodes[i].edges

\* A node's adjacency map is consistent: the edge under key k goes from the
\* node to k.
DirectionOK(n) ==
    \A k \in DOMAIN n.edges :
       /\ n.edges[k].from_node = n.idx
       /\ n.edges[k].to_node = k

\* C10: every edge stored under key k in the adjacency map of a node,
\* whether the node is held by the caller or stored in the graph, has
\* from_node equal to the node's id and to_node equal to k; a node just
\* returned by Node::new or Node::with_label has no edges.
C10_EdgeDirection ==
    /\ node # None => DirectionOK(node.val)
    /\ \A i \in 1..Len(graph.nodes) : DirectionOK(graph.nodes[i])
    /\ last.op \in {"new", "with_label"} => DOMAIN node.val.edges = {}

C10_Witness ==
    /\ last.op = "insert_edge"
    /\ last.ret.tag = "Ok"
    /\ node # None
    /\ DOMAIN node.val.edges = NodeIds
    /\ \E i \in 1..Len(graph.nodes) : DOMAIN graph.nodes[i].edges = NodeIds
    /\ \E i \in 1..Len(graph.nodes) : Before.nodes[i].edges # graph.nodes[i].edges

====
